---- MODULE Spec2Model ----
(***************************************************************************)
(* A model of src/src/pixijs-grid.js: the class PixiJSGrid, a PIXI.Graphics *)
(* that draws a square grid and maps pointer positions to grid cells.       *)
(*                                                                          *)
(* One state of the model is one PixiJSGrid object after its constructor    *)
(* has run, together with the part of the PIXI.Graphics it extends that the *)
(* class reads and writes (position, line style, drawn geometry).           *)
(***************************************************************************)
EXTENDS Integers, Sequences, FiniteSets, TLC

(***************************************************************************)
(* Bounds of the model.                                                     *)
(***************************************************************************)
\* requested widths are 0 .. MaxWidth
MaxWidth == 10
\* numeric cell sizes handed to the setter are -1 .. MaxCell
MaxCell == 3
\* the host places the grid at x, y in 0 .. MaxPos
MaxPos == 1
\* pointer positions and queried points have coordinates in -1 .. MaxPoint
MaxPoint == 2

(***************************************************************************)
(* JavaScript values.  A number is an exact rational n/d (d > 0, lowest     *)
(* terms); the non-rational values the code can produce are kept by kind:   *)
(* NaN, +/-Infinity, null, undefined, and the irrational square root of a   *)
(* non-square integer ("surd", n the radicand).                             *)
(***************************************************************************)
Abs(a) == IF a < 0 THEN 0 - a ELSE a

RECURSIVE GCD(_, _)
GCD(a, b) == IF b = 0 THEN a ELSE GCD(b, a % b)

Rat(n, d) ==
  LET s == IF d < 0 THEN 0 - 1 ELSE 1
      g == GCD(Abs(n), Abs(d))
  IN [t |-> "num", n |-> (s * n) \div g, d |-> (s * d) \div g]

Num(n) == [t |-> "num", n |-> n, d |-> 1]
NaN == [t |-> "NaN", n |-> 0, d |-> 1]
Infinity(sign) == [t |-> "inf", n |-> sign, d |-> 1]
Null == [t |-> "null", n |-> 0, d |-> 1]
Undefined == [t |-> "undefined", n |-> 0, d |-> 1]
Surd(w) == [t |-> "surd", n |-> w, d |-> 1]

IsNum(a) == a.t = "num"

\* integer floor and ceiling of n/d, d > 0
FloorDiv(n, d) == n \div d
CeilDiv(n, d) == 0 - ((0 - n) \div d)

\* the least k >= 0 with k * k >= w
RECURSIVE LeastRoot(_, _)
LeastRoot(w, k) == IF k * k >= w THEN k ELSE LeastRoot(w, k + 1)

\* ToBoolean: false for null, undefined, NaN and 0
Truthy(a) == ~(a.t \in {"null", "undefined", "NaN"}) /\ ~(IsNum(a) /\ a.n = 0)

\* a || b
JsOr(a, b) == IF Truthy(a) THEN a ELSE b

\* a + b, a - b, a * b on numbers; NaN when an operand is NaN
JsAdd(a, b) ==
  IF IsNum(a) /\ IsNum(b) THEN Rat(a.n * b.d + b.n * a.d, a.d * b.d) ELSE NaN

JsSub(a, b) ==
  IF IsNum(a) /\ IsNum(b) THEN Rat(a.n * b.d - b.n * a.d, a.d * b.d) ELSE NaN

JsMul(a, b) ==
  IF IsNum(a) /\ IsNum(b) THEN Rat(a.n * b.n, a.d * b.d) ELSE NaN

\* a / b: x/0 is +/-Infinity, 0/0 is NaN
JsDiv(a, b) ==
  IF ~(IsNum(a) /\ IsNum(b)) THEN NaN
  ELSE IF b.n = 0
       THEN IF a.n = 0 THEN NaN
            ELSE Infinity(IF a.n > 0 THEN 1 ELSE 0 - 1)
       ELSE Rat(a.n * b.d, a.d * b.n)

\* a <= b and a >= b; false when an operand is NaN
JsLeq(a, b) ==
  CASE IsNum(a) /\ IsNum(b) -> a.n * b.d <= b.n * a.d
    [] a.t = "inf" /\ IsNum(b) -> a.n < 0
    [] IsNum(a) /\ b.t = "inf" -> b.n > 0
    [] a.t = "inf" /\ b.t = "inf" -> a.n <= b.n
    [] OTHER -> FALSE

JsGeq(a, b) == JsLeq(b, a)

\* Math.sqrt of an integer
MathSqrt(a) ==
  IF ~IsNum(a) \/ a.d # 1 THEN NaN
  ELSE IF a.n < 0 THEN NaN
  ELSE LET r == LeastRoot(a.n, 0)
       IN IF r * r = a.n THEN Num(r) ELSE Surd(a.n)

\* Math.ceil
MathCeil(a) ==
  CASE IsNum(a) -> Num(CeilDiv(a.n, a.d))
    [] a.t = "surd" -> Num(LeastRoot(a.n, 0))
    [] a.t = "inf" -> a
    [] OTHER -> NaN

\* Math.floor
MathFloor(a) ==
  CASE IsNum(a) -> Num(FloorDiv(a.n, a.d))
    [] a.t = "surd" -> Num(LeastRoot(a.n, 0) - 1)
    [] a.t = "inf" -> a
    [] OTHER -> NaN

\* a ** 2
Square(a) == JsMul(a, a)


(***************************************************************************)
(* The PIXI.Graphics the grid extends: a line style and the drawn segments. *)
(***************************************************************************)
DEFAULT_LINE_STYLE ==
  [width |-> Num(1), color |-> Num(16777215), alpha |-> Num(1),
   alignment |-> Rat(1, 2), native |-> TRUE]

\* the line style of a PIXI.Graphics that was just created or cleared
PIXI_LINE_STYLE ==
  [width |-> Num(0), color |-> Num(0), alpha |-> Num(1),
   alignment |-> Rat(1, 2), native |-> FALSE]

\* a caller's own line configuration
CUSTOM_LINE_STYLE ==
  [width |-> Num(2), color |-> Num(255), alpha |-> Rat(1, 2),
   alignment |-> Num(0), native |-> FALSE]

\* this.lineStyle(width, color, alpha, alignment, native)
lineStyle(G, width, color, alpha, alignment, native) ==
  [G EXCEPT !.line = [width |-> width, color |-> color, alpha |-> alpha,
                      alignment |-> alignment, native |-> native]]

\* a clear() that resets the line style and leaves the geometry
clear_keepsGeometry(G) == [G EXCEPT !.line = PIXI_LINE_STYLE]

\* this.clear(): no geometry, and the line style back to PIXI's own
clear(G) == [line |-> PIXI_LINE_STYLE, geometry |-> <<>>]

\* this.moveTo(fx, fy); this.lineTo(tx, ty): one segment in the current style
moveToLineTo(G, fx, fy, tx, ty) ==
  [G EXCEPT !.geometry =
     Append(@, [from |-> <<fx, fy>>, to |-> <<tx, ty>>, style |-> G.line])]

(***************************************************************************)
(* The state of one PixiJSGrid.                                             *)
(***************************************************************************)
VARIABLES
  _gridWidth,        \* this._gridWidth: the requested width
  _doCorrectWidth,   \* this._doCorrectWidth
  _correctedWidth,   \* this._correctedWidth
  _drawBoundaries,   \* this._drawBoundaries
  _cellSize,         \* this._cellSize
  x, y,              \* this.x, this.y: the position the host gives the grid
  line,              \* this.line: the line style in effect
  geometry,          \* the segments drawn so far, in drawing order
  last,              \* the last call: name, argument, returned this?, hook calls
  cycle,             \* progress through drawGrid, clearGrid(true), drawGrid
  drawnCellSize      \* the cellSize at the last drawGrid, <<>> when cleared

vars == <<_gridWidth, _doCorrectWidth, _correctedWidth, _drawBoundaries,
          _cellSize, x, y, line, geometry, last, cycle, drawnCellSize>>

(***************************************************************************)
(* The methods, as functions of the fields they read.                       *)
(***************************************************************************)
\* a _correctWidth() that rounds the root down
_correctWidth_floor(gridWidth, doCorrectWidth) ==
  Square(MathFloor(MathSqrt(gridWidth)))

\* _correctWidth(): the branch for doCorrectWidth = false assigns and falls
\* through to the unconditional assignment after it
_correctWidth(gridWidth, doCorrectWidth) ==
  LET first == IF ~doCorrectWidth THEN gridWidth ELSE Null
      second == Square(MathCeil(MathSqrt(gridWidth)))
  IN second

\* a setter that falls back on null and undefined only (cellSize ?? ...)
setCellSize_nullish(cellSize, correctedWidth) ==
  IF cellSize \in {Null, Undefined} THEN MathSqrt(correctedWidth) ELSE cellSize

\* set cellSize(cellSize = null)
setCellSize(cellSize, correctedWidth) ==
  LET arg == IF cellSize = Undefined THEN Null ELSE cellSize
  IN JsOr(arg, MathSqrt(correctedWidth))

\* get amtLines()
amtLines(correctedWidth, cellSize) == JsDiv(correctedWidth, cellSize)

\* get bounds()
bounds(px, py, correctedWidth) ==
  [x1 |-> px, y1 |-> py,
   x2 |-> JsAdd(px, correctedWidth), y2 |-> JsAdd(py, correctedWidth)]

\* get gridWidth()
gridWidth(correctedWidth) == correctedWidth

\* getCellCoordinates(gx, gy)
getCellCoordinates(gx, gy, b, cellSize) ==
  [x |-> MathFloor(JsDiv(JsSub(gx, b.x1), cellSize)),
   y |-> MathFloor(JsDiv(JsSub(gy, b.y1), cellSize))]

\* clearGrid(retainLineStyle): the graphics after it and whether it returned this
clearGrid(G, retainLineStyle) ==
  LET captured == G.line
      cleared == clear(G)
  IN IF ~retainLineStyle
     THEN [g |-> cleared, self |-> FALSE]
     ELSE [g |-> lineStyle(cleared, captured.width, captured.color,
                           captured.alpha, captured.alignment, captured.native),
           self |-> TRUE]

\* the first value of i in drawGrid's loop, and what its bound subtracts
boundaryOffset(drawBoundaries) == IF drawBoundaries THEN 0 ELSE 1

\* drawGrid's loop from i on: a column and a row per iteration
RECURSIVE drawLoop(_, _, _, _, _)
drawLoop(i, G, correctedWidth, cellSize, drawBoundaries) ==
  IF JsLeq(Num(i), JsSub(amtLines(correctedWidth, cellSize),
                         Num(boundaryOffset(drawBoundaries))))
  THEN LET startCoord == JsMul(Num(i), cellSize)
           column == moveToLineTo(G, startCoord, Num(0), startCoord, correctedWidth)
           row == moveToLineTo(column, Num(0), startCoord, correctedWidth, startCoord)
       IN drawLoop(i + 1, row, correctedWidth, cellSize, drawBoundaries)
  ELSE G

\* drawGrid()
drawGrid(G, correctedWidth, cellSize, drawBoundaries) ==
  [g |-> drawLoop(boundaryOffset(drawBoundaries), clearGrid(G, TRUE).g,
                  correctedWidth, cellSize, drawBoundaries),
   self |-> TRUE]

\* a test that leaves out the left and top edges
withinBounds_exclusive(mouseCoords, b) ==
  /\ ~JsLeq(mouseCoords.x, b.x1)
  /\ JsLeq(mouseCoords.x, b.x2)
  /\ ~JsLeq(mouseCoords.y, b.y1)
  /\ JsLeq(mouseCoords.y, b.y2)

\* the test of the mousemove handler
withinBounds(mouseCoords, b) ==
  /\ JsGeq(mouseCoords.x, b.x1)
  /\ JsLeq(mouseCoords.x, b.x2)
  /\ JsGeq(mouseCoords.y, b.y1)
  /\ JsLeq(mouseCoords.y, b.y2)

\* the mousemove handler: the calls of onMousemove(evt, gridCoords) it makes
onPointerMove(mouseCoords, b, cellSize) ==
  IF withinBounds(mouseCoords, b)
  THEN <<[evt |-> mouseCoords,
          gridCoords |-> getCellCoordinates(mouseCoords.x, mouseCoords.y, b, cellSize)]>>
  ELSE <<>>


(***************************************************************************)
(* Construction.                                                            *)
(***************************************************************************)
\* the values a caller passes as a width, a cell size, a line configuration
Widths == {Num(w) : w \in 0 .. MaxWidth}
CellSizes == {Null, Undefined, NaN} \cup {Num(c) : c \in (0 - 1) .. MaxCell}
LineConfigs == {<<>>, <<CUSTOM_LINE_STYLE>>}
Positions == {Num(p) : p \in 0 .. MaxPos}
Points == {Num(p) : p \in (0 - 1) .. MaxPoint}

\* what a call leaves behind for the caller to see
Call(op, arg, self, calls) ==
  [op |-> op, arg |-> arg, self |-> self, calls |-> calls]

NoCycle == [phase |-> 0, snap |-> <<>>]

\* constructor(width, cellSize, lineConfig, doCorrectWidth, drawBoundaries)
constructor(width, cellSize, lineConfig, doCorrectWidth, drawBoundaries) ==
  LET correctedWidth == _correctWidth(width, doCorrectWidth)
      lConfig == IF lineConfig = <<>> THEN DEFAULT_LINE_STYLE ELSE lineConfig[1]
      G == lineStyle([line |-> PIXI_LINE_STYLE, geometry |-> <<>>],
                     lConfig.width, lConfig.color, lConfig.alpha,
                     lConfig.alignment, lConfig.native)
  IN [_gridWidth |-> width,
      _doCorrectWidth |-> doCorrectWidth,
      _correctedWidth |-> correctedWidth,
      _drawBoundaries |-> drawBoundaries,
      _cellSize |-> setCellSize(cellSize, correctedWidth),
      line |-> G.line,
      geometry |-> G.geometry]

Init ==
  \E width \in Widths, cellSize \in CellSizes, lineConfig \in LineConfigs,
     doCorrectWidth \in BOOLEAN, drawBoundaries \in BOOLEAN :
    LET this == constructor(width, cellSize, lineConfig, doCorrectWidth, drawBoundaries)
    IN /\ _gridWidth = this._gridWidth
       /\ _doCorrectWidth = this._doCorrectWidth
       /\ _correctedWidth = this._correctedWidth
       /\ _drawBoundaries = this._drawBoundaries
       /\ _cellSize = this._cellSize
       /\ x = Num(0)
       /\ y = Num(0)
       /\ line = this.line
       /\ geometry = this.geometry
       /\ last = Call("constructor", <<cellSize>>, TRUE, <<>>)
       /\ cycle = NoCycle
       /\ drawnCellSize = <<>>

(***************************************************************************)
(* The operations on a constructed grid.                                    *)
(***************************************************************************)
Graphics == [line |-> line, geometry |-> geometry]

\* a setter that redraws the grid with the new cell size
SetCellSize_redraws(cellSize) ==
  LET cs == setCellSize(cellSize, _correctedWidth)
      r == drawGrid(Graphics, _correctedWidth, cs, _drawBoundaries)
  IN /\ _cellSize' = cs
     /\ geometry' = r.g.geometry
     /\ drawnCellSize' = <<cs>>
     /\ last' = Call("cellSize", <<cellSize>>, FALSE, <<>>)
     /\ cycle' = NoCycle
     /\ UNCHANGED <<_gridWidth, _doCorrectWidth, _correctedWidth, _drawBoundaries,
                    x, y, line>>

\* grid.cellSize = cellSize
SetCellSize(cellSize) ==
  /\ _cellSize' = setCellSize(cellSize, _correctedWidth)
  /\ last' = Call("cellSize", <<cellSize>>, FALSE, <<>>)
  /\ cycle' = NoCycle
  /\ UNCHANGED <<_gridWidth, _doCorrectWidth, _correctedWidth, _drawBoundaries,
                 x, y, line, geometry, drawnCellSize>>

\* grid.drawGrid()
DrawGrid ==
  LET r == drawGrid(Graphics, _correctedWidth, _cellSize, _drawBoundaries)
  IN /\ line' = r.g.line
     /\ geometry' = r.g.geometry
     /\ last' = Call("drawGrid", <<>>, r.self, <<>>)
     /\ cycle' = IF cycle.phase = 2
                 THEN [cycle EXCEPT !.phase = 3]
                 ELSE [phase |-> 1, snap |-> <<r.g>>]
     /\ drawnCellSize' = <<_cellSize>>
     /\ UNCHANGED <<_gridWidth, _doCorrectWidth, _correctedWidth, _drawBoundaries,
                    _cellSize, x, y>>

\* grid.clearGrid(retainLineStyle)
ClearGrid(retainLineStyle) ==
  LET r == clearGrid(Graphics, retainLineStyle)
  IN /\ line' = r.g.line
     /\ geometry' = r.g.geometry
     /\ last' = Call("clearGrid", <<retainLineStyle>>, r.self, <<>>)
     /\ cycle' = IF retainLineStyle /\ cycle.phase \in {1, 3}
                 THEN [cycle EXCEPT !.phase = 2]
                 ELSE NoCycle
     /\ drawnCellSize' = <<>>
     /\ UNCHANGED <<_gridWidth, _doCorrectWidth, _correctedWidth, _drawBoundaries,
                    _cellSize, x, y>>

\* the host delivers a mousemove whose evt.data.global is (mx, my)
MouseMove(mx, my) ==
  LET mouseCoords == [x |-> mx, y |-> my]
  IN /\ last' = Call("mousemove", <<mx, my>>, FALSE,
                     onPointerMove(mouseCoords, bounds(x, y, _correctedWidth), _cellSize))
     /\ cycle' = NoCycle
     /\ UNCHANGED <<_gridWidth, _doCorrectWidth, _correctedWidth, _drawBoundaries,
                    _cellSize, x, y, line, geometry, drawnCellSize>>

\* the host moves the grid: grid.x = nx; grid.y = ny
MoveGrid(nx, ny) ==
  /\ x' = nx
  /\ y' = ny
  /\ last' = Call("position", <<nx, ny>>, FALSE, <<>>)
  /\ cycle' = NoCycle
  /\ UNCHANGED <<_gridWidth, _doCorrectWidth, _correctedWidth, _drawBoundaries,
                 _cellSize, line, geometry, drawnCellSize>>

(***************************************************************************)
(* Two specifications over the same grids.  Drawing reads and writes the    *)
(* line style and the geometry and never the position; the pointer handler  *)
(* reads the position, the corrected width and the cell size and never the  *)
(* graphics.  Spec interleaves assignments to cellSize with drawGrid and    *)
(* clearGrid; SpecPointer interleaves them with mousemove events.  The host *)
(* may move the grid in both.                                               *)
(***************************************************************************)
Next ==
  \/ \E cellSize \in CellSizes : SetCellSize(cellSize)
  \/ DrawGrid
  \/ \E retainLineStyle \in BOOLEAN : ClearGrid(retainLineStyle)
  \/ \E nx \in Positions, ny \in Positions : MoveGrid(nx, ny)

Spec == Init /\ [][Next]_vars

NextPointer ==
  \/ \E cellSize \in CellSizes : SetCellSize(cellSize)
  \/ \E mx \in Points, my \in Points : MouseMove(mx, my)
  \/ \E nx \in Positions, ny \in Positions : MoveGrid(nx, ny)

SpecPointer == Init /\ [][NextPointer]_vars


(***************************************************************************)
(* The properties.                                                          *)
(***************************************************************************)
Zero == Num(0)
One == Num(1)
Origin == [x |-> Zero, y |-> Zero]
Bounds == bounds(x, y, _correctedWidth)
SegmentSet == {geometry[i] : i \in DOMAIN geometry}
Falsy == {Null, Undefined, NaN, Zero}
PositiveCellSize == IsNum(_cellSize) /\ _cellSize.n > 0

\* C1: a grid constructed with doCorrectWidth = false has gridWidth equal to
\* the requested width, perfect square or not.
C1_UncorrectedWidthKept ==
  ~_doCorrectWidth => gridWidth(_correctedWidth) = _gridWidth

\* C2: with correction enabled and a requested width > 0, correctedWidth is a
\* perfect square, is >= the requested width, and no smaller perfect square
\* is >= the requested width; width 10 gives 16, and a grid constructed
\* without a cell size then has cellSize 4 and 4 lines.
C2_SmallestSquare ==
  (_doCorrectWidth /\ _gridWidth.n > 0) =>
    /\ IsNum(_correctedWidth) /\ _correctedWidth.d = 1
    /\ \E k \in 0 .. MaxWidth : k * k = _correctedWidth.n
    /\ _correctedWidth.n >= _gridWidth.n
    /\ \A k \in 0 .. MaxWidth : k * k >= _gridWidth.n => k * k >= _correctedWidth.n
    /\ (\E k \in 0 .. MaxWidth : k * k = _gridWidth.n) => _correctedWidth = _gridWidth
    /\ _gridWidth = Num(10) => _correctedWidth = Num(16)
    /\ (_gridWidth = Num(10) /\ last.op = "constructor" /\ last.arg[1] = Null) =>
         (_cellSize = Num(4) /\ amtLines(_correctedWidth, _cellSize) = Num(4))

C2_Witness ==
  /\ _doCorrectWidth
  /\ _gridWidth = Num(10)
  /\ _correctedWidth = Num(16)
  /\ last.op = "constructor"
  /\ last.arg[1] = Null
  /\ _cellSize = Num(4)

\* C3: a mousemove whose position lies in [x1, x2] x [y1, y2], edges included,
\* calls onMousemove exactly once, with the event and the cell coordinates
\* getCellCoordinates gives for that position; a mousemove outside calls
\* nothing.
C3_HookOncePerInsideMove ==
  last.op = "mousemove" =>
    LET mx == last.arg[1]
        my == last.arg[2]
        inside == /\ x.n <= mx.n /\ mx.n <= x.n + _correctedWidth.n
                  /\ y.n <= my.n /\ my.n <= y.n + _correctedWidth.n
    IN IF inside
       THEN last.calls = <<[evt |-> [x |-> mx, y |-> my],
                            gridCoords |-> getCellCoordinates(mx, my, Bounds, _cellSize)]>>
       ELSE last.calls = <<>>

\* a mousemove on the corner (x1, y1) of a moved grid, and the hook called
C3_Witness ==
  /\ last.op = "mousemove"
  /\ x = One
  /\ last.arg = <<x, y>>
  /\ Len(last.calls) = 1
  /\ last.calls[1].gridCoords = Origin

\* C4: for a cellSize > 0, drawGrid draws on each axis exactly the lines at
\* i * cellSize for i = 0 .. lineCount; with drawBoundaries false it draws
\* the same lines without those at 0 and at correctedWidth.
LineOffsets ==
  LET all == {i * _cellSize.n : i \in 0 .. (_correctedWidth.n \div _cellSize.n)}
  IN IF _drawBoundaries THEN all ELSE all \ {0, _correctedWidth.n}

ColumnAt(o) ==
  [from |-> <<Num(o), Zero>>, to |-> <<Num(o), _correctedWidth>>, style |-> line]

RowAt(o) ==
  [from |-> <<Zero, Num(o)>>, to |-> <<_correctedWidth, Num(o)>>, style |-> line]

C4_LinesDrawn ==
  (last.op = "drawGrid" /\ PositiveCellSize) =>
    /\ SegmentSet = {ColumnAt(o) : o \in LineOffsets} \cup {RowAt(o) : o \in LineOffsets}
    /\ Len(geometry) = 2 * Cardinality(LineOffsets)

\* C5: clearGrid removes all drawn geometry and returns the grid itself,
\* for retainLineStyle true and false.
C5_ClearReturnsThis ==
  last.op = "clearGrid" => (geometry = <<>> /\ last.self)

\* C6: drawGrid, clearGrid(true), drawGrid leaves the segments and the line
\* style that the first drawGrid left, however often the cycle is repeated.
C6_RedrawCycle ==
  cycle.phase = 3 => cycle.snap = <<Graphics>>

C6_Witness ==
  /\ cycle.phase = 3
  /\ Len(geometry) > 2
  /\ line = CUSTOM_LINE_STYLE

\* C7: getCellCoordinates maps the origin (x1, y1) to {0, 0}, every point
\* less than one cellSize past the origin to index 0, the point x1 + cellSize
\* to index 1, and any point to floor((x - x1) / cellSize) on each axis.
C7_CellCoordinates ==
  /\ getCellCoordinates(x, y, Bounds, _cellSize) = Origin
  /\ getCellCoordinates(JsAdd(x, _cellSize), y, Bounds, _cellSize) = [x |-> One, y |-> Zero]
  /\ \A gx \in Points, gy \in Points :
       LET c == getCellCoordinates(gx, gy, Bounds, _cellSize)
       IN /\ (PositiveCellSize /\ x.n <= gx.n /\ gx.n < x.n + _cellSize.n) => c.x = Zero
          /\ (PositiveCellSize /\ y.n <= gy.n /\ gy.n < y.n + _cellSize.n) => c.y = Zero
          /\ PositiveCellSize =>
               /\ c.x = Num((gx.n - x.n) \div _cellSize.n)
               /\ c.y = Num((gy.n - y.n) \div _cellSize.n)

\* C8: assigning a falsy value to cellSize, in the constructor or later, sets
\* it to sqrt(correctedWidth); assigning any other value sets it to that value.
C8_CellSizeAssignment ==
  last.op \in {"constructor", "cellSize"} =>
    IF last.arg[1] \in Falsy
    THEN /\ IsNum(_cellSize) /\ _cellSize.n >= 0
         /\ JsMul(_cellSize, _cellSize) = _correctedWidth
    ELSE _cellSize = last.arg[1]

\* cellSize = 0 assigned after construction to a grid of width 4
C8_Witness ==
  /\ last.op = "cellSize"
  /\ last.arg[1] = Zero
  /\ _correctedWidth = Num(4)
  /\ _cellSize = Num(2)
  /\ drawnCellSize = <<One>>

\* C9: cellSize > 0 in every state after construction.
C9_CellSizePositive == PositiveCellSize

\* C10: assigning cellSize changes lineCount, which is correctedWidth divided
\* by the new cellSize, and leaves correctedWidth, bounds and the drawn
\* segments as they were: the segments stay those of the cellSize in effect
\* at the last drawGrid.
C10_AssignmentStep ==
  last'.op = "cellSize" =>
    /\ _correctedWidth' = _correctedWidth
    /\ bounds(x', y', _correctedWidth') = Bounds
    /\ geometry' = geometry
    /\ _cellSize'.n # 0 =>
         JsMul(amtLines(_correctedWidth', _cellSize'), _cellSize') = _correctedWidth

C10_DrawnWithOldCellSize ==
  drawnCellSize # <<>> =>
    geometry = drawGrid(Graphics, _correctedWidth, drawnCellSize[1], _drawBoundaries).g.geometry

C10_AssignLeavesDrawing ==
  [][C10_AssignmentStep]_vars /\ []C10_DrawnWithOldCellSize

\* a grid drawn with cellSize 1 whose cellSize is now 2: 5 lines a side drawn
C10_Witness ==
  /\ last.op = "cellSize"
  /\ _correctedWidth = Num(4)
  /\ _drawBoundaries
  /\ drawnCellSize = <<One>>
  /\ _cellSize = Num(2)
  /\ Len(geometry) = 10
  /\ amtLines(_correctedWidth, _cellSize) = Num(2)

====
